---- MODULE Spec2Model ----
(***************************************************************************)
(* Storyboard generator: the generation orchestration engine.              *)
(*                                                                         *)
(*   Spec       the App component: script analysis, selection, and the     *)
(*              processQueue loops that drive scenes through their         *)
(*              statuses (one loop per call of processQueue; each await    *)
(*              in the code is a boundary between two actions).            *)
(*   ApiSpec    Spec, with handleManualRetry called for any id and not     *)
(*              only from the retry button of a card in ERROR.             *)
(*   RunSpec    one loop of processQueue with every generateSceneImage     *)
(*              call followed through its provider chain, under the        *)
(*              fairness of the provider calls and of the delays.          *)
(*   RetrySpec  one call of callWithRetry on an arbitrary operation.       *)
(*   ChainSpec  one call of generateSceneImage: three providers, each      *)
(*              wrapped by callWithRetry with its default arguments.       *)
(***************************************************************************)
EXTENDS Integers, Sequences, FiniteSets, TLC

\* ------------------------------------------------------------- bounds
MaxScenes == 2      \* most drafts one analysis returns
MaxBatches == 3     \* most calls of processQueue in one run
MaxAnalyses == 2    \* most calls of analyzeScript in one run
MaxRetriesArg == 5  \* largest `retries` argument given to callWithRetry in RetrySpec
MaxRuns == 1        \* most batches started in RunSpec

\* ------------------------------------------------- program constants
DefaultRetries == 5
DefaultBaseDelay == 15000
RATE_LIMIT_DELAY_MS == 25000

VARIABLES
  \* App state (useState / useRef)
  scenes,            \* Scene[]
  selectedIds,       \* Set<number>
  isAnalyzing,
  isProcessing,
  stopProcessingRef, \* stopProcessingRef.current
  \* the asynchronous calls in progress
  batches,           \* one record per call of processQueue, in call order
  analyses,          \* number of analyzeScript calls made so far
  \* geminiService: one call of callWithRetry / generateSceneImage
  mode,              \* which function was called: "callWithRetry" | "generateSceneImage"
  args,              \* the arguments of the outermost callWithRetry call
  provider,          \* index in Providers of the operation being attempted
  retries,           \* callWithRetry's `retries` in the current frame
  baseDelay,         \* callWithRetry's `baseDelay` in the current frame
  cpc,               \* "call" | "await" | "delay" | "settled"
  invoked,           \* the operations invoked so far, in order
  waited,            \* the delays awaited so far: <<operation, ms>>
  opLog,             \* what the calls of the current operation settled with, in order
  attempts,          \* generateSceneImage: the wrapped attempts that have failed, in order
  lastError,         \* generateSceneImage's lastError
  outcome            \* the promise: pending, returned a value, or thrown an error

appVars == <<scenes, selectedIds, isAnalyzing, isProcessing, stopProcessingRef,
             batches, analyses>>
svcVars == <<mode, args, provider, retries, baseDelay, cpc, invoked, waited,
             opLog, attempts, lastError, outcome>>
vars == <<scenes, selectedIds, isAnalyzing, isProcessing, stopProcessingRef,
          batches, analyses, mode, args, provider, retries, baseDelay, cpc,
          invoked, waited, opLog, attempts, lastError, outcome>>

\* ---------------------------------------------------------- types.ts
IDLE == "IDLE"
PENDING == "PENDING"
GENERATING == "GENERATING"
SUCCESS == "SUCCESS"
ERROR == "ERROR"
RETRYING == "RETRYING"
SceneStatus == {IDLE, PENDING, GENERATING, SUCCESS, ERROR, RETRYING}

\* an optional field that is not set (imageUrl?, errorMsg?)
Undefined == <<>>

\* ================================================== geminiService.ts
\* The text of an error is modelled by its message and by the set of the
\* substrings, among those the code searches for, that its lower-cased
\* toString() contains.
Err429 == [message |-> "429 Too Many Requests", contains |-> {"429"}]
Err503 == [message |-> "503 The model is overloaded", contains |-> {"503", "overloaded"}]
ErrSafety == [message |-> "400 blocked by safety filter", contains |-> {"400", "safety"}]
Err403 == [message |-> "403 Permission denied", contains |-> {"403", "permission denied"}]
ErrNoImage == [message |-> "no image data in the response", contains |-> {}]
ErrorTexts == {Err429, Err503, ErrSafety, Err403, ErrNoImage}

includes(error, substring) == substring \in error.contains

\* callWithRetry's isRateLimit
isRateLimit(error) ==
  \/ includes(error, "429")
  \/ includes(error, "quota")
  \/ includes(error, "limit")
  \/ includes(error, "resource has been exhausted")
  \/ includes(error, "503")
  \/ includes(error, "overloaded")

\* the provider operations, in the order generateSceneImage attempts them
Providers == <<"generateWithGemini25Flash", "generateWithImagen3", "generateWithGemini20Exp">>

\* the data URL a provider returns
ImageOf(p) == <<"data:image;base64", Providers[p]>>

\* generateSceneImage's final error handling: the Error it throws for lastError
FinalError(error) ==
  IF includes(error, "safety") \/ includes(error, "400")
    THEN [message |-> <<"image generation failed (safety/request error)", error.message>>]
  ELSE IF includes(error, "403") \/ includes(error, "permission denied")
    THEN [message |-> <<"permission error (403): the API key has no access to the model">>]
  ELSE IF includes(error, "quota") \/ includes(error, "exhausted") \/ includes(error, "429")
    THEN [message |-> <<"API usage exceeded (maximum retries failed)">>]
  ELSE [message |-> <<"API call failed", error.message>>]

Pending == [kind |-> "pending"]
Returned(v) == [kind |-> "returned", value |-> v]
Thrown(e) == [kind |-> "thrown", error |-> e]

\* line 33: the delay callWithRetry awaits before it retries
RetryDelay(d) == d

\* line 35: the next frame has one attempt fewer
NextRetries(r) == r - 1

\* a backoff that does not grow
NextBaseDelay_Constant(d) == d

\* a backoff that triples
NextBaseDelay_Tripled(d) == d * 3

\* line 35: the next frame's delay is doubled
NextBaseDelay(d) == d * 2

\* a wrapper that retries whatever the error
ShouldRetry_AnyError(r, error) == r > 0

\* a wrapper that gives up one attempt early
ShouldRetry_OneFewer(r, error) == r > 1 /\ isRateLimit(error)

\* a wrapper that also retries after a safety rejection
ShouldRetry_SafetyToo(r, error) == r > 0 /\ (isRateLimit(error) \/ includes(error, "safety"))

\* line 31: callWithRetry retries iff attempts remain and the error is a rate limit
ShouldRetry(r, error) == r > 0 /\ isRateLimit(error)

\* a chain that goes from the primary provider straight to the last fallback
NextProvider_SkipsFallback(p) == Len(Providers)

\* lines 231-239: the provider attempted after provider p has failed
NextProvider(p) == p + 1

\* a chain that gives up after the first fallback
HasNextProvider_GivesUpEarly(p) == p < Len(Providers) - 1

\* lines 228-241: generateSceneImage moves to the next provider while one remains
HasNextProvider(p) == p < Len(Providers)

\* the operation the current frame invokes: the caller's in RetrySpec,
\* the current provider in ChainSpec
Operation == IF mode = "callWithRetry" THEN "operation" ELSE Providers[provider]

\* what the current operation resolves with: any value in RetrySpec, the
\* provider's data URL in ChainSpec
OperationValues == IF mode = "callWithRetry" THEN {"value"} ELSE {ImageOf(provider)}

\* callWithRetry line 18: operation() is invoked and awaited
Invoke ==
  /\ cpc = "call"
  /\ invoked' = Append(invoked, Operation)
  /\ cpc' = "await"
  /\ UNCHANGED <<mode, args, provider, retries, baseDelay, waited, opLog,
                 attempts, lastError, outcome>>
  /\ UNCHANGED appVars

\* line 18, `return await operation()`: what callWithRetry returns when the
\* operation resolved with v; generateSceneImage returns the same (227-239)
ReturnOf(v) == Returned(v)

\* the awaited operation resolves
OpResolve(v) ==
  /\ cpc = "await"
  /\ opLog' = Append(opLog, Returned(v))
  /\ outcome' = ReturnOf(v)
  /\ cpc' = "settled"
  /\ UNCHANGED <<mode, args, provider, retries, baseDelay, invoked, waited,
                 attempts, lastError>>
  /\ UNCHANGED appVars

\* line 37, `throw error`: what callWithRetry throws when it gives up, the
\* operation having thrown the errors of log in this order
ThrowOf(log) == log[Len(log)].error

\* what the error thrown out of callWithRetry does to its caller: the caller
\* of RetrySpec sees it as it is; generateSceneImage catches it, records it as
\* lastError and attempts the next provider (228-239), or, after the last
\* provider, throws the Error its final error handling derives from lastError
\* (240-255)
Propagate(error, log) ==
  IF mode = "callWithRetry"
    THEN /\ outcome' = Thrown(error)
         /\ cpc' = "settled"
         /\ opLog' = log
         /\ UNCHANGED <<provider, retries, baseDelay, lastError, attempts>>
    ELSE /\ lastError' = error
         /\ attempts' = Append(attempts, [provider |-> provider,
                                           invocations |-> Len(log),
                                           error |-> error])
         /\ IF HasNextProvider(provider)
              THEN /\ provider' = NextProvider(provider)
                   /\ retries' = DefaultRetries
                   /\ baseDelay' = DefaultBaseDelay
                   /\ opLog' = <<>>
                   /\ cpc' = "call"
                   /\ UNCHANGED outcome
              ELSE /\ outcome' = Thrown(FinalError(error))
                   /\ cpc' = "settled"
                   /\ opLog' = log
                   /\ UNCHANGED <<provider, retries, baseDelay>>

\* the awaited operation rejects: callWithRetry's catch block (19-38)
OpReject(error) ==
  /\ cpc = "await"
  /\ IF ShouldRetry(retries, error)
       THEN /\ waited' = Append(waited, <<Operation, RetryDelay(baseDelay)>>)
            /\ opLog' = Append(opLog, Thrown(error))
            /\ cpc' = "delay"
            /\ UNCHANGED <<provider, retries, baseDelay, lastError, attempts, outcome>>
       ELSE /\ Propagate(ThrowOf(Append(opLog, Thrown(error))), Append(opLog, Thrown(error)))
            /\ UNCHANGED waited
  /\ UNCHANGED <<mode, args, invoked>>
  /\ UNCHANGED appVars

\* line 33-35: delay(baseDelay) is over: the recursive call, one attempt
\* fewer, the delay doubled
RetryDelayDone ==
  /\ cpc = "delay"
  /\ retries' = NextRetries(retries)
  /\ baseDelay' = NextBaseDelay(baseDelay)
  /\ cpc' = "call"
  /\ UNCHANGED <<mode, args, provider, invoked, waited, opLog, attempts, lastError, outcome>>
  /\ UNCHANGED appVars

\* the App state before anything is analyzed
AppInit ==
  /\ scenes = <<>>
  /\ selectedIds = {}
  /\ isAnalyzing = FALSE
  /\ isProcessing = FALSE
  /\ stopProcessingRef = FALSE
  /\ batches = <<>>
  /\ analyses = 0

\* no call of the service is being followed
SvcIdle ==
  /\ mode = "none"
  /\ args = [retries |-> DefaultRetries, baseDelay |-> DefaultBaseDelay]
  /\ provider = 0
  /\ retries = DefaultRetries
  /\ baseDelay = DefaultBaseDelay
  /\ cpc = "idle"
  /\ invoked = <<>>
  /\ waited = <<>>
  /\ opLog = <<>>
  /\ attempts = <<>>
  /\ lastError = Undefined
  /\ outcome = Pending

\* the base delays a caller passes (the default, and a shorter one)
BaseDelayArgs == {1000, DefaultBaseDelay}

\* callWithRetry(operation, retries, baseDelay) has just been called
RetryInit ==
  /\ AppInit
  /\ mode = "callWithRetry"
  /\ args \in [retries : 0..MaxRetriesArg, baseDelay : BaseDelayArgs]
  /\ provider = 0
  /\ retries = args.retries
  /\ baseDelay = args.baseDelay
  /\ cpc = "call"
  /\ invoked = <<>>
  /\ waited = <<>>
  /\ opLog = <<>>
  /\ attempts = <<>>
  /\ lastError = Undefined
  /\ outcome = Pending

\* generateSceneImage has just been called: the primary provider, wrapped by
\* callWithRetry with its default arguments
ChainInit ==
  /\ AppInit
  /\ mode = "generateSceneImage"
  /\ args = [retries |-> DefaultRetries, baseDelay |-> DefaultBaseDelay]
  /\ provider = 1
  /\ retries = DefaultRetries
  /\ baseDelay = DefaultBaseDelay
  /\ cpc = "call"
  /\ invoked = <<>>
  /\ waited = <<>>
  /\ opLog = <<>>
  /\ attempts = <<>>
  /\ lastError = Undefined
  /\ outcome = Pending

\* ============================================================ App.tsx
\* what generateSceneImage settles with in Spec: the image of the primary or
\* of the first fallback provider, or the Error derived from a quota error or
\* from a response without image data
GeneratedImages == {ImageOf(1), ImageOf(2)}
GenerationErrors == {FinalError(Err429), FinalError(ErrNoImage)}

\* an analysis that numbers the scenes from 0
NewScene_ZeroBased(k, index) ==
  [id |-> index,
   scriptSegment |-> <<"segment", k, index>>,
   englishPrompt |-> <<"prompt", k, index>>,
   mainCharacterVisible |-> (index % 2 = 0),
   imageUrl |-> Undefined,
   status |-> IDLE,
   errorMsg |-> Undefined,
   retryCount |-> 0]

\* analyzeScript lines 105-112: the Scene made of the index-th draft (index from
\* 0) of the k-th analysis; imageUrl and errorMsg are not set
NewScene(k, index) ==
  [id |-> index + 1,
   scriptSegment |-> <<"segment", k, index>>,
   englishPrompt |-> <<"prompt", k, index>>,
   mainCharacterVisible |-> (index % 2 = 0),
   imageUrl |-> Undefined,
   status |-> IDLE,
   errorMsg |-> Undefined,
   retryCount |-> 0]

\* the Scene[] analyzeScript returns for n drafts
AnalyzedScenes(k, n) == [j \in 1..n |-> NewScene(k, j - 1)]

\* line 97: { ...s, status: isRetryMode ? RETRYING : GENERATING }
MarkStarted(s, isRetryMode) ==
  [s EXCEPT !.status = IF isRetryMode THEN RETRYING ELSE GENERATING]

\* line 107: { ...s, status: SUCCESS, imageUrl, errorMsg: undefined }
MarkSuccess(s, imageUrl) ==
  [s EXCEPT !.status = SUCCESS, !.imageUrl = imageUrl, !.errorMsg = Undefined]

\* a failure that records the message and leaves the status as it is
MarkError_KeepsStatus(s, errorMsg) == [s EXCEPT !.errorMsg = errorMsg]

\* line 114: { ...s, status: ERROR, errorMsg }
MarkError(s, errorMsg) ==
  [s EXCEPT !.status = ERROR, !.errorMsg = errorMsg]

\* an update that marks every scene as started, whatever its id
SetStarted_EveryScene(prev, sceneId, isRetryMode) ==
  [j \in 1..Len(prev) |-> MarkStarted(prev[j], isRetryMode)]

\* line 97: setScenes(prev => prev.map(s => s.id === sceneId ? ... : s))
SetStarted(prev, sceneId, isRetryMode) ==
  [j \in 1..Len(prev) |->
     IF prev[j].id = sceneId THEN MarkStarted(prev[j], isRetryMode) ELSE prev[j]]

\* line 107: setScenes(prev => prev.map(s => s.id === sceneId ? ... : s))
SetSuccess(prev, sceneId, imageUrl) ==
  [j \in 1..Len(prev) |->
     IF prev[j].id = sceneId THEN MarkSuccess(prev[j], imageUrl) ELSE prev[j]]

\* line 114: setScenes(prev => prev.map(s => s.id === sceneId ? ... : s))
SetError(prev, sceneId, errorMsg) ==
  [j \in 1..Len(prev) |->
     IF prev[j].id = sceneId THEN MarkError(prev[j], errorMsg) ELSE prev[j]]

\* line 112: error.message || "unknown error"
ErrorMsgOf(error) ==
  IF error.message = Undefined THEN <<"unknown error">> ELSE error.message

\* the ids of a list of scenes, in its order
IdsOf(list) == [j \in 1..Len(list) |-> list[j].id]

\* the scene of the collection with this id (scenes.find), if any
HasScene(id) == \E j \in 1..Len(scenes) : scenes[j].id = id
SceneOf(id) == scenes[CHOOSE j \in 1..Len(scenes) : scenes[j].id = id]

\* a loop that waits after every item, the last one too
RateLimitDue_AfterEveryItem(i, total, stop) == ~stop

\* a loop that does not look at the stop flag before it waits
RateLimitDue_IgnoresStop(i, total, stop) == i < total

\* line 118: the rate-limit delay is awaited after item i (counted from 1) of
\* total, unless it is the last or a stop was requested
RateLimitDue(i, total, stop) == i < total /\ ~stop

\* line 89: the stop signal is checked before each item
StopSeen(stop) == stop

\* lines 123-128: the loop is left
FinishBatch(b) ==
  /\ batches' = [batches EXCEPT ![b].pc = "done"]
  /\ isProcessing' = FALSE

\* lines 94-104: item i of batch b is started: its status is set and
\* generateSceneImage is called
StartItem(b, record, i) ==
  /\ scenes' = SetStarted(scenes, record.targets[i], record.isRetryMode)
  /\ batches' = [batches EXCEPT ![b] =
                   [record EXCEPT !.i = i, !.pc = "generate",
                                  !.trace = Append(record.trace, <<"generate", record.targets[i]>>)]]

\* lines 81-104: processQueue is called and runs up to its first await
processQueue(scenesToProcess, isRetryMode) ==
  LET b == Len(batches) + 1
      record == [targets |-> IdsOf(scenesToProcess),
                 isRetryMode |-> isRetryMode,
                 i |-> 0,
                 pc |-> "done",
                 trace |-> <<>>,
                 before |-> [j \in 1..Len(scenesToProcess) |-> scenesToProcess[j].status],
                 stopRequested |-> FALSE,
                 stopAt |-> 0]
  IN /\ Len(batches) < MaxBatches
     /\ stopProcessingRef' = FALSE
     /\ IF Len(scenesToProcess) = 0
          THEN /\ batches' = Append(batches, record)
               /\ isProcessing' = FALSE
               /\ UNCHANGED scenes
          ELSE /\ isProcessing' = TRUE
               /\ scenes' = SetStarted(scenes, record.targets[1], isRetryMode)
               /\ batches' = Append(batches,
                                [record EXCEPT !.i = 1, !.pc = "generate",
                                   !.trace = <<<<"generate", record.targets[1]>>>>])

\* lines 117-128: after item i is settled, the delay or the end of the loop
AfterItem(b) ==
  LET record == batches[b]
  IN IF RateLimitDue(record.i, Len(record.targets), stopProcessingRef)
       THEN /\ batches' = [batches EXCEPT ![b].pc = "delay",
                                          ![b].trace = Append(record.trace, <<"delay", RATE_LIMIT_DELAY_MS>>)]
            /\ UNCHANGED isProcessing
       ELSE FinishBatch(b)

\* lines 104-108: generateSceneImage returned an image
GenerateResolve(b, imageUrl) ==
  /\ b \in 1..Len(batches)
  /\ batches[b].pc = "generate"
  /\ scenes' = SetSuccess(scenes, batches[b].targets[batches[b].i], imageUrl)
  /\ AfterItem(b)
  /\ UNCHANGED <<selectedIds, isAnalyzing, stopProcessingRef, analyses>>
  /\ UNCHANGED svcVars

\* lines 110-115: generateSceneImage threw
GenerateReject(b, error) ==
  /\ b \in 1..Len(batches)
  /\ batches[b].pc = "generate"
  /\ scenes' = SetError(scenes, batches[b].targets[batches[b].i], ErrorMsgOf(error))
  /\ AfterItem(b)
  /\ UNCHANGED <<selectedIds, isAnalyzing, stopProcessingRef, analyses>>
  /\ UNCHANGED svcVars

\* lines 119, 87-104: the rate-limit delay is over; the next turn of the loop
RateLimitDelayDone(b) ==
  /\ b \in 1..Len(batches)
  /\ batches[b].pc = "delay"
  /\ LET record == batches[b]
         i == record.i + 1
     IN IF i > Len(record.targets) \/ StopSeen(stopProcessingRef)
          THEN /\ FinishBatch(b)
               /\ UNCHANGED scenes
          ELSE /\ StartItem(b, record, i)
               /\ UNCHANGED isProcessing
  /\ UNCHANGED <<selectedIds, isAnalyzing, stopProcessingRef, analyses>>
  /\ UNCHANGED svcVars

\* a click that changes the selection whether or not a batch is processing
toggleSelection_Always(id) ==
  /\ HasScene(id)
  /\ selectedIds' = IF id \in selectedIds THEN selectedIds \ {id}
                                          ELSE selectedIds \cup {id}
  /\ UNCHANGED <<scenes, isAnalyzing, isProcessing, stopProcessingRef, batches, analyses>>
  /\ UNCHANGED svcVars

\* lines 34-40; a card is clicked
toggleSelection(id) ==
  /\ HasScene(id)
  /\ IF isProcessing
       THEN UNCHANGED selectedIds
       ELSE selectedIds' = IF id \in selectedIds THEN selectedIds \ {id}
                                                 ELSE selectedIds \cup {id}
  /\ UNCHANGED <<scenes, isAnalyzing, isProcessing, stopProcessingRef, batches, analyses>>
  /\ UNCHANGED svcVars

\* lines 42-46; the button is disabled without scenes or while processing (344)
handleSelectAll ==
  /\ Len(scenes) > 0 /\ ~isProcessing
  /\ selectedIds' = {scenes[j].id : j \in 1..Len(scenes)}
  /\ UNCHANGED <<scenes, isAnalyzing, isProcessing, stopProcessingRef, batches, analyses>>
  /\ UNCHANGED svcVars

\* lines 48-51; the button is disabled without scenes or selection, or while
\* processing (351)
handleDeselectAll ==
  /\ Len(scenes) > 0 /\ ~isProcessing /\ selectedIds # {}
  /\ selectedIds' = {}
  /\ UNCHANGED <<scenes, isAnalyzing, isProcessing, stopProcessingRef, batches, analyses>>
  /\ UNCHANGED svcVars

\* a trim that leaves white space where it is
Trim_KeepsBlanks(script) == script

\* script.trim()
Trim(script) == IF script = "   " THEN "" ELSE script

\* lines 54-70; the button is disabled while analyzing or processing, or with
\* an empty script (315)
handleAnalyze(apiKey, script) ==
  /\ ~isAnalyzing /\ ~isProcessing /\ script # ""
  /\ analyses < MaxAnalyses
  /\ IF apiKey = "" \/ Trim(script) = ""
       THEN UNCHANGED <<scenes, selectedIds, isAnalyzing, analyses>>
       ELSE /\ isAnalyzing' = TRUE
            /\ scenes' = <<>>
            /\ selectedIds' = {}
            /\ analyses' = analyses + 1
  /\ UNCHANGED <<isProcessing, stopProcessingRef, batches>>
  /\ UNCHANGED svcVars

\* lines 70-72, 76: analyzeScript returned n scenes
AnalyzeResolve(n) ==
  /\ isAnalyzing
  /\ scenes' = AnalyzedScenes(analyses, n)
  /\ isAnalyzing' = FALSE
  /\ UNCHANGED <<selectedIds, isProcessing, stopProcessingRef, batches, analyses>>
  /\ UNCHANGED svcVars

\* lines 73-76: analyzeScript threw
AnalyzeReject ==
  /\ isAnalyzing
  /\ isAnalyzing' = FALSE
  /\ UNCHANGED <<scenes, selectedIds, isProcessing, stopProcessingRef, batches, analyses>>
  /\ UNCHANGED svcVars

\* a start that leaves out the selected scenes that already have an image
SelectedScenes_NotYetDone ==
  SelectSeq(scenes, LAMBDA s : s.id \in selectedIds /\ s.status # SUCCESS)

\* lines 138, 141: the targets of a start
SelectedScenes == SelectSeq(scenes, LAMBDA s : s.id \in selectedIds)
PendingScenes == SelectSeq(scenes, LAMBDA s : s.status = IDLE \/ s.status = ERROR)
StartTargets == IF Cardinality(selectedIds) > 0 THEN SelectedScenes ELSE PendingScenes

\* lines 133-150; the button is shown while not processing (368) and enabled
\* with scenes (381)
handleStartGeneration ==
  /\ ~isProcessing /\ Len(scenes) > 0
  /\ IF Cardinality(selectedIds) = 0 /\ Len(PendingScenes) = 0
       THEN UNCHANGED <<scenes, isProcessing, stopProcessingRef, batches>>
       ELSE processQueue(StartTargets, FALSE)
  /\ UNCHANGED <<selectedIds, isAnalyzing, analyses>>
  /\ UNCHANGED svcVars

\* lines 152-155; the button is shown while processing (368). The batches that
\* are running note that a stop was requested, and which item was in flight.
handleStopGeneration ==
  /\ isProcessing
  /\ stopProcessingRef' = TRUE
  /\ batches' = [b \in 1..Len(batches) |->
                   IF batches[b].pc = "done" \/ batches[b].stopRequested
                     THEN batches[b]
                     ELSE [batches[b] EXCEPT !.stopRequested = TRUE,
                             !.stopAt = IF batches[b].pc = "generate" THEN batches[b].i ELSE 0]]
  /\ UNCHANGED <<scenes, selectedIds, isAnalyzing, isProcessing, analyses>>
  /\ UNCHANGED svcVars

\* a bulk retry over every scene that has no image yet
FailedScenes_NotSucceeded == SelectSeq(scenes, LAMBDA s : s.status # SUCCESS)

\* line 158
FailedScenes == SelectSeq(scenes, LAMBDA s : s.status = ERROR)

\* lines 157-165; the button is disabled without a failed scene or while
\* processing (401)
handleRetryFailed ==
  /\ Len(FailedScenes) > 0 /\ ~isProcessing
  /\ processQueue(FailedScenes, TRUE)
  /\ UNCHANGED <<selectedIds, isAnalyzing, analyses>>
  /\ UNCHANGED svcVars

\* SceneCard 250-258: the retry button is on the card of every scene in ERROR
RetryButtonShown(id) == HasScene(id) /\ SceneOf(id).status = ERROR

\* a manual retry that leaves a scene alone unless it has failed
ManualRetryQueue_IfFailed(id) ==
  IF SceneOf(id).status = ERROR THEN <<SceneOf(id)>> ELSE <<>>

\* line 170: [scene], the scene found by its id
ManualRetryQueue(id) == <<SceneOf(id)>>

\* lines 167-172: the scene is looked up by its id; no test of its status
handleManualRetry(id) ==
  /\ HasScene(id)
  /\ processQueue(ManualRetryQueue(id), TRUE)
  /\ UNCHANGED <<selectedIds, isAnalyzing, analyses>>
  /\ UNCHANGED svcVars

Init == AppInit /\ SvcIdle

Next ==
  \/ \E apiKey \in {"", "key"}, script \in {"   ", "script"} : handleAnalyze(apiKey, script)
  \/ \E n \in 0..MaxScenes : AnalyzeResolve(n)
  \/ AnalyzeReject
  \/ \E id \in 1..MaxScenes : toggleSelection(id)
  \/ handleSelectAll
  \/ handleDeselectAll
  \/ handleStartGeneration
  \/ handleStopGeneration
  \/ handleRetryFailed
  \/ \E id \in 1..MaxScenes : RetryButtonShown(id) /\ handleManualRetry(id)
  \/ \E b \in 1..MaxBatches, imageUrl \in GeneratedImages : GenerateResolve(b, imageUrl)
  \/ \E b \in 1..MaxBatches, error \in GenerationErrors : GenerateReject(b, error)
  \/ \E b \in 1..MaxBatches : RateLimitDelayDone(b)

Spec == Init /\ [][Next]_vars

\* the App with handleManualRetry called for any id, not only from the retry
\* button of a card in ERROR
ApiNext ==
  \/ Next
  \/ \E id \in 1..(MaxScenes + 1) : handleManualRetry(id)

ApiSpec == Init /\ [][ApiNext]_vars

SvcNext ==
  \/ Invoke
  \/ \E v \in OperationValues : OpResolve(v)
  \/ \E error \in ErrorTexts : OpReject(error)
  \/ RetryDelayDone

RetrySpec == RetryInit /\ [][SvcNext]_vars
ChainSpec == ChainInit /\ [][SvcNext]_vars

\* ------------------------------------------- a batch down to its provider calls
\* RunSpec: the loops of processQueue with every generateSceneImage call
\* followed through its provider chain. One loop runs at a time, as there is
\* one call frame; it is started by handleStartGeneration and may be stopped;
\* the errors a provider throws are a quota error or a safety rejection.
RunErrors == {Err429, ErrSafety}

\* a script has been analyzed into one or more scenes
RunInit ==
  /\ \E n \in 1..MaxScenes : scenes = AnalyzedScenes(1, n)
  /\ selectedIds = {}
  /\ isAnalyzing = FALSE
  /\ isProcessing = FALSE
  /\ stopProcessingRef = FALSE
  /\ batches = <<>>
  /\ analyses = 1
  /\ SvcIdle

\* App.tsx line 104: the loop calls generateSceneImage for the item it has
\* just marked as started
CallGenerate ==
  /\ cpc = "idle"
  /\ \E b \in 1..Len(batches) : batches[b].pc = "generate"
  /\ mode' = "generateSceneImage"
  /\ args' = [retries |-> DefaultRetries, baseDelay |-> DefaultBaseDelay]
  /\ provider' = 1
  /\ retries' = DefaultRetries
  /\ baseDelay' = DefaultBaseDelay
  /\ cpc' = "call"
  /\ invoked' = <<>>
  /\ waited' = <<>>
  /\ opLog' = <<>>
  /\ attempts' = <<>>
  /\ lastError' = Undefined
  /\ outcome' = Pending
  /\ UNCHANGED appVars

\* the settled call has been taken by the loop (lines 104-115); its frame is gone
ReturnFrame ==
  /\ cpc = "settled"
  /\ \A b \in 1..Len(batches) : batches[b].pc # "generate"
  /\ mode' = "none"
  /\ args' = [retries |-> DefaultRetries, baseDelay |-> DefaultBaseDelay]
  /\ provider' = 0
  /\ retries' = DefaultRetries
  /\ baseDelay' = DefaultBaseDelay
  /\ cpc' = "idle"
  /\ invoked' = <<>>
  /\ waited' = <<>>
  /\ opLog' = <<>>
  /\ attempts' = <<>>
  /\ lastError' = Undefined
  /\ outcome' = Pending
  /\ UNCHANGED appVars

\* a provider call settles
ProviderSettles ==
  /\ cpc = "await"
  /\ \/ \E v \in OperationValues : OpResolve(v)
     \/ \E error \in RunErrors : OpReject(error)

\* the loop takes what generateSceneImage settled with (lines 104-115)
GenerateSettles ==
  \/ \E b \in 1..MaxBatches :
       cpc = "settled" /\ outcome.kind = "returned" /\ GenerateResolve(b, outcome.value)
  \/ \E b \in 1..MaxBatches :
       cpc = "settled" /\ outcome.kind = "thrown" /\ GenerateReject(b, outcome.error)

\* the rate-limit delay of the loop is over
RateLimitDelayOver == \E b \in 1..MaxBatches : cpc = "idle" /\ RateLimitDelayDone(b)

RunNext ==
  \/ Len(batches) < MaxRuns /\ cpc = "idle" /\ handleStartGeneration
  \/ handleStopGeneration
  \/ CallGenerate
  \/ Invoke
  \/ ProviderSettles
  \/ RetryDelayDone
  \/ GenerateSettles
  \/ RateLimitDelayOver
  \/ ReturnFrame

\* every provider call and every delay eventually completes, and the loop
\* goes on when it can
RunFair ==
  /\ WF_vars(CallGenerate)
  /\ WF_vars(Invoke)
  /\ WF_vars(ProviderSettles)
  /\ WF_vars(RetryDelayDone)
  /\ WF_vars(GenerateSettles)
  /\ WF_vars(RateLimitDelayOver)
  /\ WF_vars(ReturnFrame)

RunSpec == RunInit /\ [][RunNext]_vars /\ RunFair

\* ============================================================ claims
\* the status of the scene with this id in a collection
StatusIn(collection, id) ==
  IF \E j \in 1..Len(collection) : collection[j].id = id
    THEN collection[CHOOSE j \in 1..Len(collection) : collection[j].id = id].status
    ELSE "absent"

Running(b) == batches[b].pc # "done"
InFlight == {j \in 1..Len(scenes) : scenes[j].status \in {GENERATING, RETRYING}}

\* C1: for every scene, imageUrl is set iff status is SUCCESS, and errorMsg is
\* set iff status is ERROR.
C1_FieldsMatchStatus ==
  \A j \in 1..Len(scenes) :
    /\ (scenes[j].imageUrl # Undefined) <=> (scenes[j].status = SUCCESS)
    /\ (scenes[j].errorMsg # Undefined) <=> (scenes[j].status = ERROR)

\* C2: at most one processQueue loop is running at any time.
C2_OneBatchActive ==
  Cardinality({b \in 1..Len(batches) : Running(b)}) <= 1

\* C3: at most one scene is GENERATING or RETRYING, and at most one call of
\* generateSceneImage is in flight.
C3_OneInFlight ==
  /\ Cardinality(InFlight) <= 1
  /\ Cardinality({b \in 1..Len(batches) : batches[b].pc = "generate"}) <= 1

\* what a batch over these targets does when no stop is requested:
\* generateSceneImage for each target in order, the rate-limit delay between
\* two consecutive calls
ExpectedTrace(targets) ==
  [k \in 1..(2 * Len(targets) - 1) |->
     IF k % 2 = 1 THEN <<"generate", targets[(k + 1) \div 2]>>
                  ELSE <<"delay", RATE_LIMIT_DELAY_MS>>]

IsPrefix(s, t) == Len(s) <= Len(t) /\ \A k \in 1..Len(s) : s[k] = t[k]

\* C4: a batch over N targets with no stop request calls generateSceneImage
\* exactly N times, once per target in list order, and awaits the rate-limit
\* delay exactly N-1 times, each between two consecutive calls.
C4_CallsAndDelays ==
  \A b \in 1..Len(batches) :
    ~batches[b].stopRequested =>
      /\ IsPrefix(batches[b].trace, ExpectedTrace(batches[b].targets))
      /\ batches[b].pc = "done" => batches[b].trace = ExpectedTrace(batches[b].targets)

\* a batch over two targets has ended without a stop request
C4_Witness ==
  \E b \in 1..Len(batches) :
    /\ batches[b].pc = "done" /\ ~batches[b].stopRequested
    /\ Len(batches[b].targets) = 2

\* batch b ends in this step
Ends(b) == batches[b].pc # "done" /\ batches'[b].pc = "done"

\* C5: when a batch ends after requestStop was issued while its k-th target was
\* being generated, targets 1..k are SUCCESS or ERROR and targets k+1..N have
\* the status they had before the batch started; the stop request leaves the
\* call in flight as it is.
C5_StopAtBoundary ==
  [][\A b \in 1..Len(batches) :
       /\ (Ends(b) /\ batches[b].stopAt > 0) =>
            /\ \A j \in 1..batches[b].stopAt :
                 StatusIn(scenes', batches[b].targets[j]) \in {SUCCESS, ERROR}
            /\ \A j \in (batches[b].stopAt + 1)..Len(batches[b].targets) :
                 StatusIn(scenes', batches[b].targets[j]) = batches[b].before[j]
       /\ (stopProcessingRef' /\ ~stopProcessingRef) => batches'[b].pc = batches[b].pc]_vars

\* C6: when generateSceneImage settles for an item, the scene is SUCCESS or
\* ERROR (with its errorMsg on ERROR) and, unless a stop was requested, the
\* batch goes on to the next target; when a batch without a stop request ends,
\* every target is SUCCESS or ERROR.
C6_FailureDoesNotEndBatch ==
  [][\A b \in 1..Len(batches) :
       /\ (batches[b].pc = "generate" /\ batches'[b].pc # "generate") =>
            /\ StatusIn(scenes', batches[b].targets[batches[b].i]) \in {SUCCESS, ERROR}
            /\ (batches[b].i < Len(batches[b].targets) /\ ~stopProcessingRef)
                  => batches'[b].pc = "delay"
       /\ (Ends(b) /\ ~batches[b].stopRequested) =>
            \A j \in 1..Len(batches[b].targets) :
              StatusIn(scenes', batches[b].targets[j]) \in {SUCCESS, ERROR}]_vars

\* the signals that make an error retryable
RetryableSignals == {"429", "quota", "limit", "resource has been exhausted", "503", "overloaded"}
Retryable(entry) == entry.kind = "thrown" /\ entry.error.contains \cap RetryableSignals # {}
Fatal(entry) == entry.kind = "thrown" /\ entry.error.contains \cap RetryableSignals = {}

\* the first n calls of the operation all failed with a retryable error
FailedRetryably(n) == n <= Len(opLog) /\ \A k \in 1..n : Retryable(opLog[k])

\* C7: when the operation fails with a retryable error exactly R times and then
\* succeeds, with maxRetries >= R, callWithRetry returns the success value
\* after exactly R+1 invocations and exactly R delays, the i-th delay being
\* baseDelay * 2^(i-1).
C7_RetriesThenReturns ==
  \A R \in 0..args.retries :
    (Len(opLog) = R + 1 /\ FailedRetryably(R) /\ opLog[R + 1].kind = "returned") =>
      /\ cpc = "settled"
      /\ outcome = Returned(opLog[R + 1].value)
      /\ invoked = [k \in 1..(R + 1) |-> "operation"]
      /\ waited = [k \in 1..R |-> <<"operation", args.baseDelay * 2 ^ (k - 1)>>]

\* the operation failed three times with a retryable error and then succeeded
C7_Witness ==
  /\ Len(opLog) = 4 /\ FailedRetryably(3) /\ opLog[4].kind = "returned"
  /\ args.baseDelay = 1000
  /\ waited = <<<<"operation", 1000>>, <<"operation", 2000>>, <<"operation", 4000>>>>

\* C8: when the operation fails with an error that carries no retryable
\* signal, callWithRetry propagates that error after that one invocation and
\* without awaiting any delay, whatever the number of remaining attempts.
C8_FatalPropagates ==
  \A n \in 1..Len(opLog) :
    Fatal(opLog[n]) =>
      /\ n = Len(opLog)
      /\ cpc = "settled"
      /\ outcome = Thrown(opLog[n].error)
      /\ Len(invoked) = n
      /\ Len(waited) = n - 1

\* the first call failed with a fatal error while attempts remained
C8_Witness ==
  /\ Len(opLog) = 1 /\ Fatal(opLog[1]) /\ args.retries > 0
  /\ cpc = "settled" /\ Len(invoked) = 1 /\ waited = <<>>

\* C9: when the operation fails with a retryable error on every attempt,
\* callWithRetry invokes it exactly maxRetries+1 times, awaits exactly
\* maxRetries delays, and then propagates the error of the last attempt.
C9_ExhaustedPropagatesLast ==
  FailedRetryably(Len(opLog)) =>
    /\ Len(invoked) <= args.retries + 1
    /\ Len(waited) <= args.retries
    /\ Len(opLog) <= args.retries => outcome = Pending
    /\ Len(opLog) = args.retries + 1 =>
         /\ cpc = "settled"
         /\ Len(invoked) = args.retries + 1
         /\ Len(waited) = args.retries
         /\ outcome = Thrown(opLog[Len(opLog)].error)

\* every attempt failed with a retryable error, the last with another error
\* than the first
C9_Witness ==
  /\ args.retries >= 2 /\ Len(opLog) = args.retries + 1
  /\ FailedRetryably(Len(opLog))
  /\ opLog[1].error # opLog[Len(opLog)].error
  /\ cpc = "settled"

\* the index of a provider operation in the chain
IndexOf(operation) == CHOOSE p \in 1..Len(Providers) : Providers[p] = operation
FailedProviders == {attempts[k].provider : k \in 1..Len(attempts)}

\* C10: providers are attempted in the fixed order of the chain, a provider is
\* invoked only after every earlier provider's wrapped attempt has failed, and
\* the chain returns the first success without invoking any later provider.
C10_ChainOrder ==
  /\ \A k \in 1..Len(invoked) :
       /\ k = 1 => IndexOf(invoked[k]) = 1
       /\ k > 1 => IndexOf(invoked[k]) \in {IndexOf(invoked[k - 1]), IndexOf(invoked[k - 1]) + 1}
       /\ \A q \in 1..(IndexOf(invoked[k]) - 1) : q \in FailedProviders
  /\ \A k \in 1..Len(attempts) : attempts[k].provider = k
  /\ outcome.kind = "returned" =>
       /\ cpc = "settled"
       /\ outcome.value = ImageOf(IndexOf(invoked[Len(invoked)]))
       /\ IndexOf(invoked[Len(invoked)]) \notin FailedProviders
       /\ FailedProviders = 1..(IndexOf(invoked[Len(invoked)]) - 1)

\* the primary provider exhausted its retries, the first fallback succeeded at
\* its first attempt, and the second fallback was not invoked
C10_Witness ==
  /\ Len(attempts) = 1 /\ attempts[1].invocations = DefaultRetries + 1
  /\ outcome = Returned(ImageOf(2))
  /\ Len(invoked) = DefaultRetries + 2
  /\ \A k \in 1..Len(invoked) : invoked[k] # Providers[3]

\* C11: generateSceneImage throws only after the wrapped attempt of every
\* provider has failed, and the Error it throws is the one its final error
\* handling derives from the last error of the last provider, whatever the
\* errors of the earlier providers were.
C11_FailsAfterAllProviders ==
  outcome.kind = "thrown" =>
    /\ cpc = "settled"
    /\ Len(attempts) = Len(Providers)
    /\ FailedProviders = 1..Len(Providers)
    /\ opLog # <<>> /\ opLog[Len(opLog)].kind = "thrown"
    /\ invoked[Len(invoked)] = Providers[Len(Providers)]
    /\ outcome = Thrown(FinalError(opLog[Len(opLog)].error))

\* the chain has thrown the quota Error after the primary provider failed with
\* a safety error and the last provider ran out of retries on 429
C11_Witness ==
  /\ outcome = Thrown(FinalError(Err429))
  /\ Len(attempts) = 3
  /\ attempts[1].error = ErrSafety
  /\ attempts[2].error = Err403
  /\ attempts[3].invocations = DefaultRetries + 1
  /\ FinalError(attempts[1].error) # outcome.error
  /\ FinalError(attempts[2].error) # outcome.error

\* the position of the scene with this id in the collection
IndexIn(collection, id) == CHOOSE j \in 1..Len(collection) : collection[j].id = id

\* the ids of t are ids of scenes, without duplicate and in the order the
\* scenes have in the collection
InCollectionOrder(t) ==
  /\ \A k \in 1..Len(t) : HasScene(t[k])
  /\ \A k, l \in 1..Len(t) : k < l => IndexIn(scenes, t[k]) < IndexIn(scenes, t[l])

\* this step calls processQueue; Started is the batch it starts
Starts == Len(batches') = Len(batches) + 1
Started == batches'[Len(batches')]
TargetSet(record) == {record.targets[k] : k \in 1..Len(record.targets)}

\* C12: when the selection is not empty, a start of generation (the only call
\* of processQueue that is not in retry mode) targets exactly the scenes whose
\* ids are selected, in collection order, whatever their status.
C12_SelectionPriority ==
  [][(Starts /\ ~Started.isRetryMode /\ selectedIds # {}) =>
       /\ TargetSet(Started) = {id \in selectedIds : HasScene(id)}
       /\ InCollectionOrder(Started.targets)
       /\ Len(Started.targets) > 0]_vars

\* the second of two scenes is selected and already SUCCESS, the first is in
\* ERROR and not selected: the batch that was started targets the second only
C12_Witness ==
  \E b \in 1..Len(batches) :
    /\ ~batches[b].isRetryMode /\ batches[b].pc = "generate"
    /\ batches[b].targets = <<2>> /\ batches[b].before = <<SUCCESS>>
    /\ selectedIds = {2}
    /\ Len(scenes) = 2 /\ scenes[1].status = ERROR /\ scenes[2].status = GENERATING

\* the ids of the scenes a default start is to pick up: IDLE or ERROR, a scene
\* left in GENERATING counting as IDLE
DefaultEligible == {scenes[j].id : j \in {k \in 1..Len(scenes) : scenes[k].status \in {IDLE, ERROR, GENERATING}}}

\* C13: when the selection is empty, a start of generation targets exactly the
\* scenes whose status is IDLE or ERROR, in collection order, a scene left in
\* GENERATING being treated as IDLE; a batch is started only when there is such
\* a scene.
C13_DefaultTargets ==
  [][(Starts /\ ~Started.isRetryMode /\ selectedIds = {}) =>
       /\ TargetSet(Started) = DefaultEligible
       /\ InCollectionOrder(Started.targets)
       /\ Len(Started.targets) > 0]_vars

\* the ids of the scenes that have this status
IdsWithStatus(status) == {scenes[j].id : j \in {k \in 1..Len(scenes) : scenes[k].status = status}}

\* C14: handleRetryFailed starts a batch in retry mode whose targets are exactly
\* the scenes that are in ERROR when it is called, in collection order; no
\* batch in retry mode is started without a target in ERROR.
C14_RetryFailedTargets ==
  [][/\ handleRetryFailed =>
          /\ Starts /\ Started.isRetryMode
          /\ TargetSet(Started) = IdsWithStatus(ERROR)
          /\ InCollectionOrder(Started.targets)
          /\ Started.pc = "generate" /\ Started.i = 1
     /\ (Starts /\ Started.isRetryMode) =>
          /\ Len(Started.targets) > 0
          /\ \A k \in 1..Len(Started.targets) : StatusIn(scenes, Started.targets[k]) = ERROR]_vars

\* a batch in retry mode over two scenes that both were in ERROR has set the
\* first to RETRYING
C14_Witness ==
  \E b \in 1..Len(batches) :
    /\ batches[b].isRetryMode /\ batches[b].pc = "generate" /\ batches[b].i = 1
    /\ batches[b].targets = <<1, 2>> /\ batches[b].before = <<ERROR, ERROR>>
    /\ Len(scenes) = 2 /\ scenes[1].status = RETRYING /\ scenes[2].status = ERROR

\* C15: handleManualRetry(id) starts a batch in retry mode whose only target
\* is the scene with that id, whatever the status of that scene; no batch is
\* started for an id that no scene has.
C15_ManualRetryTarget ==
  [][/\ \A id \in 1..(MaxScenes + 1) :
          handleManualRetry(id) =>
            /\ HasScene(id)
            /\ Starts /\ Started.isRetryMode
            /\ Started.targets = <<id>>
            /\ Started.pc = "generate" /\ Started.i = 1
            /\ StatusIn(scenes', id) = RETRYING
     /\ Starts => \A k \in 1..Len(Started.targets) : HasScene(Started.targets[k])]_vars

\* a manual retry was started for a scene that was SUCCESS
C15_Witness ==
  \E b \in 1..Len(batches) :
    /\ batches[b].isRetryMode /\ batches[b].pc = "generate"
    /\ batches[b].targets = <<2>> /\ batches[b].before = <<SUCCESS>>
    /\ Len(scenes) = 2 /\ scenes[2].status = RETRYING /\ scenes[2].imageUrl # Undefined

\* the scenes that are in the collection before and after this step
Kept == {j \in 1..Len(scenes) : j <= Len(scenes') /\ scenes'[j].id = scenes[j].id}

\* C16: every change of the status of a scene follows the state machine:
\* SUCCESS and ERROR are entered from GENERATING or RETRYING only, GENERATING
\* and RETRYING from IDLE, PENDING, SUCCESS or ERROR only, there is no direct
\* change between SUCCESS and ERROR, and a scene in ERROR that is driven again
\* becomes RETRYING.
C16_StatusStateMachine ==
  [][\A j \in Kept :
       scenes'[j].status # scenes[j].status =>
         /\ scenes'[j].status \in {SUCCESS, ERROR} =>
              scenes[j].status \in {GENERATING, RETRYING}
         /\ scenes'[j].status \in {GENERATING, RETRYING} =>
              scenes[j].status \in {IDLE, PENDING, SUCCESS, ERROR}
         /\ ~(scenes[j].status = SUCCESS /\ scenes'[j].status = ERROR)
         /\ ~(scenes[j].status = ERROR /\ scenes'[j].status = SUCCESS)
         /\ scenes[j].status = ERROR => scenes'[j].status = RETRYING]_vars

\* the attempt of batch b on its current target is completed by this step
Completes(b) == batches[b].pc = "generate" /\ batches'[b].pc # "generate"

\* C17: retryCount counts the completed retry attempts of a scene: it is 0
\* after analysis, never decreases, and is one higher when an attempt of a
\* batch in retry mode on that scene has completed.
C17_RetryCountCounts ==
  [][/\ (isAnalyzing /\ ~isAnalyzing') =>
          \A j \in 1..Len(scenes') : scenes'[j].retryCount = 0
     /\ \A j \in Kept : scenes'[j].retryCount >= scenes[j].retryCount
     /\ \A b \in 1..Len(batches) :
          (batches[b].isRetryMode /\ Completes(b)) =>
            \A j \in Kept :
              scenes[j].id = batches[b].targets[batches[b].i] =>
                scenes'[j].retryCount = scenes[j].retryCount + 1]_vars

\* C18: when analyzeScript has returned n drafts, the collection is the n new
\* scenes and nothing else: ids 1..n in draft order, every scene IDLE with
\* retryCount 0, no imageUrl and no errorMsg, the texts of this analysis, and
\* the selection is empty.
C18_AnalysisReplacesCollection ==
  [][\A n \in 0..MaxScenes :
       AnalyzeResolve(n) =>
         /\ Len(scenes') = n
         /\ \A j \in 1..n :
              /\ scenes'[j].id = j
              /\ scenes'[j].status = IDLE
              /\ scenes'[j].retryCount = 0
              /\ scenes'[j].imageUrl = Undefined
              /\ scenes'[j].errorMsg = Undefined
              /\ scenes'[j].scriptSegment = <<"segment", analyses, j - 1>>
              /\ scenes'[j].englishPrompt = <<"prompt", analyses, j - 1>>
         /\ selectedIds' = {}
         /\ ~isAnalyzing']_vars

\* the second analysis has returned two scenes, after a batch on the scenes of
\* the first analysis had ended
C18_Witness ==
  /\ analyses = 2 /\ ~isAnalyzing
  /\ Len(scenes) = 2 /\ selectedIds = {}
  /\ \A j \in 1..2 : scenes[j].status = IDLE /\ scenes[j].scriptSegment = <<"segment", 2, j - 1>>
  /\ Len(batches) = 1 /\ batches[1].pc = "done" /\ Len(batches[1].trace) = 3

\* C19: when the attempt on an item has completed, processQueue begins the
\* rate-limit delay iff the item is not the last target and the stop flag is
\* not set at that moment; the status of the next item is changed only after
\* that delay is over.
C19_RateLimiter ==
  [][\A b \in 1..Len(batches) :
       /\ Completes(b) =>
            /\ IF batches[b].i < Len(batches[b].targets) /\ ~stopProcessingRef
                 THEN /\ batches'[b].pc = "delay"
                      /\ batches'[b].trace = Append(batches[b].trace, <<"delay", RATE_LIMIT_DELAY_MS>>)
                 ELSE /\ batches'[b].pc = "done"
                      /\ batches'[b].trace = batches[b].trace
            /\ batches'[b].i = batches[b].i
            /\ \A k \in (batches[b].i + 1)..Len(batches[b].targets) :
                 StatusIn(scenes', batches[b].targets[k]) = StatusIn(scenes, batches[b].targets[k])
       /\ batches'[b].i # batches[b].i =>
            /\ batches[b].pc = "delay"
            /\ batches[b].trace[Len(batches[b].trace)] = <<"delay", RATE_LIMIT_DELAY_MS>>
            /\ batches'[b].i = batches[b].i + 1]_vars

\* the only batch, over two targets, has ended after its first item without a
\* delay, the stop flag being set
C19_Witness ==
  /\ Len(batches) = 1 /\ batches[1].pc = "done"
  /\ batches[1].targets = <<1, 2>> /\ batches[1].i = 1
  /\ batches[1].trace = <<<<"generate", 1>>>>
  /\ stopProcessingRef /\ batches[1].stopAt = 1

\* C20: from the moment generateSceneImage is called for a target until the
\* call returns or throws, the status of that scene is RETRYING when the batch
\* is in retry mode and GENERATING otherwise.
C20_StatusWhileInFlight ==
  \A b \in 1..Len(batches) :
    batches[b].pc = "generate" =>
      StatusIn(scenes, batches[b].targets[batches[b].i]) =
        IF batches[b].isRetryMode THEN RETRYING ELSE GENERATING

\* the number of invocations of an operation so far
Count(seq, x) == Cardinality({k \in 1..Len(seq) : seq[k] = x})

\* this step is the failure of the wrapped attempt of the current provider;
\* Failed is the record of that attempt
AttemptFails == Len(attempts') = Len(attempts) + 1
Failed == attempts'[Len(attempts')]
RetryableError(error) == error.contains \cap RetryableSignals # {}

\* what holds of every failure of a wrapped attempt: the provider was invoked
\* once per entry of its log, every failure before the last was retryable,
\* the next provider is attempted if there is one, and the chain throws only
\* after the last provider
FallsThrough ==
  /\ Failed.provider = provider
  /\ Failed.invocations = Len(opLog) + 1
  /\ Failed.invocations = Count(invoked, Providers[provider])
  /\ \A n \in 1..Len(opLog) : Retryable(opLog[n])
  /\ RetryableError(Failed.error) => Failed.invocations = DefaultRetries + 1
  /\ IF provider < Len(Providers)
       THEN provider' = provider + 1 /\ cpc' = "call" /\ outcome' = Pending
       ELSE outcome'.kind = "thrown"

\* C21 as stated: a wrapped attempt that fails with a fatal error has invoked
\* its provider exactly once, one that fails by exhausting its retries has
\* invoked it retries+1 times; in both cases the next provider is attempted,
\* and the chain does not fail before the last provider was attempted.
C21_FatalInvokedOnce ==
  [][AttemptFails =>
       /\ FallsThrough
       /\ ~RetryableError(Failed.error) => Failed.invocations = 1]_vars

\* C21, amended: a wrapped attempt that fails with a fatal error has invoked
\* its provider once after each retryable failure and once more, at most
\* retries+1 times, and not again after the fatal error; one that fails by
\* exhausting its retries has invoked it retries+1 times; in both cases the
\* next provider is attempted, and the chain does not fail before the last
\* provider was attempted.
C21_FallThrough ==
  [][AttemptFails =>
       /\ FallsThrough
       /\ ~RetryableError(Failed.error) =>
            /\ Failed.invocations \in 1..(DefaultRetries + 1)
            /\ invoked[Len(invoked)] = Providers[provider]]_vars

\* the primary provider failed fatally at its second invocation, the first
\* fallback exhausted its retries, and the last provider has been invoked
C21_Witness ==
  /\ Len(attempts) >= 2
  /\ attempts[1].invocations = 2 /\ ~RetryableError(attempts[1].error)
  /\ attempts[2].invocations = DefaultRetries + 1 /\ RetryableError(attempts[2].error)
  /\ invoked[Len(invoked)] = Providers[3]

\* the Error of the persistent quota failure (line 253)
QuotaFailure == [message |-> <<"API usage exceeded (maximum retries failed)">>]

\* the wrapped attempt of every provider has failed by exhausting its retries
\* on a retryable error
AllExhausted ==
  /\ Len(attempts) = Len(Providers)
  /\ \A k \in 1..Len(attempts) :
       attempts[k].invocations = DefaultRetries + 1 /\ RetryableError(attempts[k].error)

\* C22: generateSceneImage fails with the persistent quota failure exactly
\* when every provider of the chain has exhausted its retries on a retryable
\* error.
C22_QuotaIffAllExhausted ==
  (outcome = Thrown(QuotaFailure)) <=> AllExhausted

\* this step is a step of a processQueue loop that writes the collection
BatchWrites == scenes' # scenes /\ analyses' = analyses /\ isAnalyzing' = isAnalyzing

\* the batches that take this step, and the targets they are at after it
Stepping == {b \in 1..Len(batches') : b > Len(batches) \/ batches'[b] # batches[b]}
CurrentTargets == {batches'[b].targets[batches'[b].i] : b \in {c \in Stepping : batches'[c].i > 0}}

\* C23: a step of a batch changes only the status, imageUrl and errorMsg of
\* the scene it is processing: the other fields of that scene, the length and
\* the order of the collection and every field of every other scene are
\* unchanged.
C23_BatchFrame ==
  [][BatchWrites =>
       /\ Len(scenes') = Len(scenes)
       /\ \A j \in 1..Len(scenes) :
            /\ scenes'[j].id = scenes[j].id
            /\ scenes'[j].scriptSegment = scenes[j].scriptSegment
            /\ scenes'[j].englishPrompt = scenes[j].englishPrompt
            /\ scenes'[j].mainCharacterVisible = scenes[j].mainCharacterVisible
            /\ scenes'[j].retryCount = scenes[j].retryCount
            /\ scenes'[j] # scenes[j] => scenes[j].id \in CurrentTargets
       /\ Cardinality(Stepping) = 1]_vars

\* a manual retry of scene 1 has ended, and scene 2, which it did not target,
\* still has the image of the first batch
C23_Witness ==
  /\ Len(batches) = 2
  /\ batches[1].targets = <<1, 2>> /\ batches[1].pc = "done"
  /\ batches[2].targets = <<1>> /\ batches[2].isRetryMode /\ batches[2].pc = "done"
  /\ batches[2].before = <<ERROR>>
  /\ Len(scenes) = 2
  /\ scenes[1].status = SUCCESS /\ scenes[1].imageUrl = ImageOf(2)
  /\ scenes[2].status = SUCCESS /\ scenes[2].imageUrl = ImageOf(1)

\* C24: whenever no processQueue loop is running, no scene is GENERATING or
\* RETRYING.
C24_NoOrphanInFlight ==
  (\A b \in 1..Len(batches) : ~Running(b)) => InFlight = {}

\* three batches have ended, one of them stopped before its second target and
\* one of them a retry, and both scenes are settled
C24_Witness ==
  /\ Len(batches) = 3 /\ \A b \in 1..3 : ~Running(b)
  /\ \E b \in 1..3 : batches[b].stopRequested /\ batches[b].i < Len(batches[b].targets)
  /\ \E b \in 1..3 : batches[b].isRetryMode
  /\ Len(scenes) = 2 /\ \A j \in 1..2 : scenes[j].status \in {SUCCESS, ERROR}

\* C25: isProcessing is true exactly while some processQueue loop is running.
C25_ProcessingIffRunning ==
  isProcessing <=> (\E b \in 1..Len(batches) : Running(b))

\* C26: from a stop request issued while a batch is running until that batch
\* has left its loop, the stop flag stays set and the batch starts no further
\* target.
C26_StopStaysInEffect ==
  [][\A b \in 1..Len(batches) :
       (batches[b].stopRequested /\ Running(b)) =>
         /\ stopProcessingRef /\ stopProcessingRef'
         /\ batches'[b].i = batches[b].i]_vars

\* C27: while a processQueue loop is running no script analysis is started or
\* in progress, so the collection is not replaced under a running batch.
C27_NoAnalysisWhileRunning ==
  [][(\E b \in 1..Len(batches) : Running(b)) =>
       /\ ~isAnalyzing
       /\ analyses' = analyses
       /\ Len(scenes') = Len(scenes)]_vars

\* C28: the selection holds only ids of scenes of the current collection, and
\* no step taken while isProcessing is true changes it (toggleSelection,
\* handleSelectAll and handleDeselectAll return at once).
C28_SelectionWithinCollection ==
  [][/\ selectedIds \subseteq {scenes[j].id : j \in 1..Len(scenes)}
     /\ selectedIds' \subseteq {scenes'[j].id : j \in 1..Len(scenes')}
     /\ isProcessing => selectedIds' = selectedIds]_vars

\* a batch over the selected second scene is processing, the selection as it
\* was when the batch was started
C28_Witness ==
  /\ isProcessing /\ selectedIds = {2} /\ Len(scenes) = 2
  /\ \E b \in 1..Len(batches) : Running(b) /\ batches[b].targets = <<2>> /\ ~batches[b].isRetryMode

\* the backoff awaited so far for provider p, over the first k delays
RECURSIVE BackoffOf(_, _)
BackoffOf(p, k) ==
  IF k = 0 THEN 0
  ELSE BackoffOf(p, k - 1) + (IF waited[k][1] = Providers[p] THEN waited[k][2] ELSE 0)

\* one call of generateSceneImage stays within 3*(retries+1) provider
\* invocations, retries+1 per provider, and baseDelay*(2^retries - 1) of
\* backoff per provider
WithinBounds ==
  /\ Len(invoked) <= 3 * (DefaultRetries + 1)
  /\ Len(invoked) <= 18
  /\ \A p \in 1..Len(Providers) :
       /\ Count(invoked, Providers[p]) <= DefaultRetries + 1
       /\ BackoffOf(p, Len(waited)) <= DefaultBaseDelay * (2 ^ DefaultRetries - 1)

\* C29: every batch terminates when every provider call and every delay
\* eventually completes: a running loop eventually exits with isProcessing
\* false; and every call of generateSceneImage makes at most 3*(retries+1)
\* provider invocations (18 by default) and awaits at most
\* baseDelay*(2^retries - 1) of backoff per provider.
C29_TerminatesWithinBounds ==
  /\ []WithinBounds
  /\ (\E b \in 1..Len(batches) : Running(b)) ~>
       (~isProcessing /\ \A b \in 1..Len(batches) : ~Running(b))

\* a batch has ended with the failure of a call in which each of the three
\* providers was invoked six times and the full backoff was awaited
C29_Witness ==
  /\ cpc = "settled" /\ Len(invoked) = 18
  /\ \A p \in 1..Len(Providers) :
       BackoffOf(p, Len(waited)) = DefaultBaseDelay * (2 ^ DefaultRetries - 1)
  /\ ~isProcessing
  /\ \E b \in 1..Len(batches) : batches[b].pc = "done" /\ Len(batches[b].targets) = 2 /\ batches[b].i = 2

\* a script of white space only, or no script
Blank(script) == script \in {"", "   "}

\* C30: handleAnalyze with an API key and a script that is not blank empties
\* the collection and the selection before the analyzer is called, so the
\* collection is empty when the analysis fails; with a missing API key or a
\* blank script it changes neither the collection nor the selection.
C30_AnalyzeEmptiesFirst ==
  [][/\ \A apiKey \in {"", "key"}, script \in {"   ", "script"} :
          handleAnalyze(apiKey, script) =>
            IF apiKey = "" \/ Blank(script)
              THEN scenes' = scenes /\ selectedIds' = selectedIds /\ isAnalyzing' = isAnalyzing
              ELSE scenes' = <<>> /\ selectedIds' = {} /\ isAnalyzing'
     /\ isAnalyzing => scenes = <<>> /\ selectedIds = {}
     /\ AnalyzeReject => scenes' = <<>> /\ selectedIds' = {} /\ ~isAnalyzing']_vars

\* the second analysis is in progress: the collection is empty, and the two
\* scenes a batch had generated are gone
C30_Witness ==
  /\ isAnalyzing /\ analyses = 2 /\ scenes = <<>> /\ selectedIds = {}
  /\ Len(batches) = 1 /\ batches[1].pc = "done" /\ Len(batches[1].trace) = 3

====
